---- MODULE Spec2Model ----
(***************************************************************************)
(* Loyalty ledger ("Pay Loop"): the transaction section of the dashboard,  *)
(* the tier utilities and the eligibility check, as a state machine.       *)
(*                                                                         *)
(* Numbers.  Money and points are JavaScript numbers.  They are modelled   *)
(* exactly, as integers counting 1/Scale of a unit (hundredths), which is  *)
(* exact for whole-unit bill amounts and whole-number percentages          *)
(* (subtotal * pct / 100 is a whole number of hundredths).  Floating-point *)
(* rounding is not modelled.  NaN (parseFloat of a missing or non-numeric  *)
(* text) is the empty tuple <<>>, a number n is <<n>>; null is <<>> where  *)
(* the code has number | null, and Null where it has an object | null.     *)
(* Time is an integer count of ticks, DayLen ticks to the day, so that the *)
(* flooring of partial days is visible.                                    *)
(* The customer's display name plays no part in any rule and is left out.  *)
(***************************************************************************)
EXTENDS Integers, Sequences, FiniteSets, TLC

(* ------------------------------ bounds -------------------------------- *)
\* committed history entries in the whole collection
MaxTxns == 2
\* the clock stops advancing here
MaxNow == 2
\* ticks per day
DayLen == 2
\* the most notifications requested and not failed
MaxSms == 2

(* ------------------------- program constants -------------------------- *)
\* the percentage divisor: amounts are counted in 1/Scale of a unit
Scale == 100
\* mobile.length >= 10 starts the customer lookup
MinMobileLen == 10
\* a new customer's PIN has pin.length === 4
PinLen == 4

Tiers == <<"Bronze", "Silver", "Gold", "Platinum">>

DEFAULT_TIER_SETTINGS ==
    [bronze   |-> [minSpend |-> 0,     minPoints |-> 0],
     silver   |-> [minSpend |-> 2000,  minPoints |-> 100],
     gold     |-> [minSpend |-> 10000, minPoints |-> 500],
     platinum |-> [minSpend |-> 50000, minPoints |-> 2500]]

DEFAULT_DISCOUNT_SETTINGS ==
    [bronze |-> 0, silver |-> 5, gold |-> 10, platinum |-> 15]

DEFAULT_DEADLINE_SETTINGS ==
    [bronze |-> 365, silver |-> 180, gold |-> 90, platinum |-> 60]

(* ------------------------------ inputs -------------------------------- *)
\* what the operator can type or select in the form
CountryCodes == {"+91", "+1"}
Mobiles      == {"", "9876543210"}
Pins         == {"", "1234"}
BillTexts    == {"", "abc", "0", "-2", "4"}
CashTexts    == {"", "2", "200"}
PointsTexts  == {"", "-1", "2"}

\* the numerals among the texts above, with their values
Numerals ==
    ("0" :> 0) @@ ("2" :> 2) @@ ("4" :> 4) @@ ("5" :> 5) @@ ("200" :> 200) @@
    ("-1" :> -1) @@ ("-2" :> -2)

(* ------------------------------ values -------------------------------- *)
Null == [isNull |-> TRUE]
NaN  == <<>>

\* parseFloat(text): a number, or NaN for a missing or non-numeric text
parseFloat(text) ==
    IF text \in DOMAIN Numerals THEN <<Numerals[text] * Scale>> ELSE NaN

\* parseFloat(text) || 0: NaN and 0 are both falsy
OrZero(n) == IF n = NaN THEN 0 ELSE n[1]

Min2(a, b) == IF a <= b THEN a ELSE b
Max2(a, b) == IF a >= b THEN a ELSE b

\* lower-cased tier name -> key of a settings object
TierKey(tier, settings) ==
    CASE tier = "Bronze"   -> settings.bronze
      [] tier = "Silver"   -> settings.silver
      [] tier = "Gold"     -> settings.gold
      [] tier = "Platinum" -> settings.platinum

TierRank(tier) == CHOOSE i \in 1..Len(Tiers) : Tiers[i] = tier

(* --------------------------- tier utilities --------------------------- *)
getTierBySpend_LowestMatch(customer, settings) ==
    IF customer.totalSpent >= settings.silver.minSpend * Scale THEN "Silver"
    ELSE IF customer.totalSpent >= settings.gold.minSpend * Scale THEN "Gold"
    ELSE IF customer.totalSpent >= settings.platinum.minSpend * Scale THEN "Platinum"
    ELSE "Bronze"

getTierBySpend(customer, settings) ==
    IF customer.totalSpent >= settings.platinum.minSpend * Scale THEN "Platinum"
    ELSE IF customer.totalSpent >= settings.gold.minSpend * Scale THEN "Gold"
    ELSE IF customer.totalSpent >= settings.silver.minSpend * Scale THEN "Silver"
    ELSE "Bronze"

getTierByPoints(customer, settings) ==
    IF customer.points >= settings.platinum.minPoints * Scale THEN "Platinum"
    ELSE IF customer.points >= settings.gold.minPoints * Scale THEN "Gold"
    ELSE IF customer.points >= settings.silver.minPoints * Scale THEN "Silver"
    ELSE "Bronze"

getCustomerTier_BothCriteria(customer, settings) ==
    IF /\ customer.totalSpent >= settings.platinum.minSpend * Scale
       /\ customer.points >= settings.platinum.minPoints * Scale THEN "Platinum"
    ELSE IF /\ customer.totalSpent >= settings.gold.minSpend * Scale
            /\ customer.points >= settings.gold.minPoints * Scale THEN "Gold"
    ELSE IF /\ customer.totalSpent >= settings.silver.minSpend * Scale
            /\ customer.points >= settings.silver.minPoints * Scale THEN "Silver"
    ELSE "Bronze"

getCustomerTier(customer, settings) ==
    IF \/ customer.totalSpent >= settings.platinum.minSpend * Scale
       \/ customer.points >= settings.platinum.minPoints * Scale THEN "Platinum"
    ELSE IF \/ customer.totalSpent >= settings.gold.minSpend * Scale
            \/ customer.points >= settings.gold.minPoints * Scale THEN "Gold"
    ELSE IF \/ customer.totalSpent >= settings.silver.minSpend * Scale
            \/ customer.points >= settings.silver.minPoints * Scale THEN "Silver"
    ELSE "Bronze"

(* ---------------------------- eligibility ----------------------------- *)
InitialEligibility ==
    [eligible |-> TRUE, daysSinceLastTxn |-> <<>>, deadline |-> <<>>,
     pointsTier |-> "null"]

LatestFrom_First(history, i, latest) == latest

\* history.reduce((latest, tx) => tx.date > latest.date ? tx : latest)
RECURSIVE LatestFrom(_, _, _)
LatestFrom(history, i, latest) ==
    IF i > Len(history) THEN latest
    ELSE LatestFrom(history, i + 1,
                    IF history[i].date > latest.date THEN history[i] ELSE latest)

checkDiscountEligibility_StrictDeadline(customer, deadlines, tiers, today) ==
    IF Len(customer.history) = 0 THEN InitialEligibility
    ELSE LET lastTransaction  == LatestFrom(customer.history, 2, customer.history[1])
             daysSinceLastTxn == (today - lastTransaction.date) \div DayLen
             pointsTier       == getTierByPoints(customer, tiers)
             deadline         == TierKey(pointsTier, deadlines)
         IN  [eligible |-> daysSinceLastTxn < deadline,
              daysSinceLastTxn |-> <<daysSinceLastTxn>>,
              deadline |-> <<deadline>>,
              pointsTier |-> pointsTier]

checkDiscountEligibility_NoEmptyCase(customer, deadlines, tiers, today) ==
    LET pointsTier == getTierByPoints(customer, tiers)
        deadline   == TierKey(pointsTier, deadlines)
    IN  IF Len(customer.history) = 0
        THEN [eligible |-> TRUE, daysSinceLastTxn |-> <<>>,
              deadline |-> <<deadline>>, pointsTier |-> pointsTier]
        ELSE LET lastTransaction ==
                     LatestFrom(customer.history, 2, customer.history[1])
                 daysSinceLastTxn == (today - lastTransaction.date) \div DayLen
             IN  [eligible |-> daysSinceLastTxn <= deadline,
                  daysSinceLastTxn |-> <<daysSinceLastTxn>>,
                  deadline |-> <<deadline>>,
                  pointsTier |-> pointsTier]

checkDiscountEligibility(customer, deadlines, tiers, today) ==
    IF Len(customer.history) = 0 THEN InitialEligibility
    ELSE LET lastTransaction  == LatestFrom(customer.history, 2, customer.history[1])
             daysSinceLastTxn == (today - lastTransaction.date) \div DayLen
             pointsTier       == getTierByPoints(customer, tiers)
             deadline         == TierKey(pointsTier, deadlines)
         IN  [eligible |-> daysSinceLastTxn <= deadline,
              daysSinceLastTxn |-> <<daysSinceLastTxn>>,
              deadline |-> <<deadline>>,
              pointsTier |-> pointsTier]

(* -------------------------- bill computation -------------------------- *)
discountOf_IgnoresEligibility(usePoints, eligible, customer, subtotal, discounts, tiers) ==
    IF usePoints /\ customer # Null /\ subtotal > 0
    THEN LET discountPercentage ==
                 TierKey(getCustomerTier(customer, tiers), discounts)
         IN  [percentage |-> discountPercentage,
              amount |-> (subtotal * discountPercentage) \div Scale]
    ELSE [percentage |-> 0, amount |-> 0]

\* the tier discount: [percentage, amount]
discountOf(usePoints, eligible, customer, subtotal, discounts, tiers) ==
    IF usePoints /\ eligible /\ customer # Null /\ subtotal > 0
    THEN LET discountPercentage ==
                 TierKey(getCustomerTier(customer, tiers), discounts)
         IN  [percentage |-> discountPercentage,
              amount |-> (subtotal * discountPercentage) \div Scale]
    ELSE [percentage |-> 0, amount |-> 0]

pointsUsedOf_NoBalanceCap(usePoints, customer, finalBill, desiredPoints) ==
    IF usePoints /\ customer # Null /\ customer.points > 0
    THEN Min2(finalBill, desiredPoints)
    ELSE 0

pointsUsedOf_NoBillCap(usePoints, customer, finalBill, desiredPoints) ==
    IF usePoints /\ customer # Null /\ customer.points > 0
    THEN Min2(customer.points, desiredPoints)
    ELSE 0

\* Math.min(currentCustomer.points, finalBill, desiredPoints), or 0
pointsUsedOf(usePoints, customer, finalBill, desiredPoints) ==
    IF usePoints /\ customer # Null /\ customer.points > 0
    THEN Min2(customer.points, Min2(finalBill, desiredPoints))
    ELSE 0

pointsEarnedOf_RoundsUp(cash, cashPayable) ==
    Max2(0, (((cash - cashPayable) + (Scale - 1)) \div Scale) * Scale)

\* Math.max(0, Math.floor(cash - cashPayable))
pointsEarnedOf(cash, cashPayable) ==
    Max2(0, ((cash - cashPayable) \div Scale) * Scale)

\* billDetails, as a function of the state it is memoised over
BillOf(billText, cashText, usePoints, customer, discounts, tiers, eligible, pointsText) ==
    LET subtotal == OrZero(parseFloat(billText))
        discount == discountOf(usePoints, eligible, customer, subtotal, discounts, tiers)
        finalBill == subtotal - discount.amount
        desiredPoints == OrZero(parseFloat(pointsText))
        pointsUsed == pointsUsedOf(usePoints, customer, finalBill, desiredPoints)
        cashPayable == finalBill - pointsUsed
        cash == OrZero(parseFloat(cashText))
    IN  [subtotal |-> subtotal, discountPercentage |-> discount.percentage,
         discountAmount |-> discount.amount, finalBill |-> finalBill,
         pointsUsed |-> pointsUsed, cashPayable |-> cashPayable,
         pointsEarned |-> pointsEarnedOf(cash, cashPayable)]

(* ------------------------------- state -------------------------------- *)
VARIABLES
    \* App: the tenant's collection and settings, and the clock
    customers, tierSettings, discountSettings, deadlineSettings, now,
    \* TransactionSection: the form
    countryCode, mobile, pin, billAmount, cashGiven, pointsToUse,
    usePointsAndDiscount, canUsePoints,
    \* TransactionSection: the flow
    currentCustomer, isNewCustomer, showPinSection, showTransactionForm,
    eligibility, lastTransactionDetails,
    \* the message of the alert() the last handler raised, "" for none
    alert,
    \* Dashboard: the section on screen
    activeSection,
    \* the states of the transaction flow passed since the section was mounted
    \* or the form reset (a history of the flow, read by no handler)
    passed,
    \* TransactionSection and CustomersSection: the status of the SMS buttons
    smsStatus, listSmsStatus,
    \* the requests to /api/send-sms not yet answered
    smsRequests,
    \* App: the log of the notifications sent
    smsLogs,
    \* localStorage: the item of the tenant's customer collection
    stored,
    \* a second session of the same tenant (another tab): its App's customers
    peer

ledger == <<customers, tierSettings, discountSettings, deadlineSettings>>
form   == <<countryCode, mobile, pin, billAmount, cashGiven, pointsToUse,
            usePointsAndDiscount, canUsePoints>>
flow   == <<currentCustomer, isNewCustomer, showPinSection, showTransactionForm,
            eligibility, lastTransactionDetails>>
sms    == <<smsStatus, listSmsStatus, smsRequests, smsLogs>>
store  == <<stored, peer>>
vars   == <<ledger, now, form, flow, alert, activeSection, passed, sms, store>>

Sections == {"overview", "transaction", "customers", "settings"}
\* no status recorded: the state of CustomersSection when mounted
NoStatus == [m \in {} |-> "idle"]

\* the number of history entries in a collection
RECURSIVE TotalTxns(_)
TotalTxns(custs) ==
    IF custs = <<>> THEN 0
    ELSE Len(custs[1].history) + TotalTxns(Tail(custs))

\* the useState initial values of TransactionSection, after its first effect
MountedForm ==
    /\ countryCode = "+91" /\ mobile = "" /\ pin = ""
    /\ billAmount = "" /\ cashGiven = "" /\ pointsToUse = ""
    /\ usePointsAndDiscount = FALSE /\ canUsePoints = FALSE
    /\ currentCustomer = Null /\ isNewCustomer = FALSE
    /\ showPinSection = FALSE /\ showTransactionForm = TRUE
    /\ eligibility = InitialEligibility
    /\ lastTransactionDetails = Null
    /\ smsStatus = "idle"
    /\ passed = {}

Init ==
    /\ customers = <<>>
    /\ tierSettings = DEFAULT_TIER_SETTINGS
    /\ discountSettings = DEFAULT_DISCOUNT_SETTINGS
    /\ deadlineSettings = DEFAULT_DEADLINE_SETTINGS
    /\ now = 0
    /\ MountedForm
    /\ alert = ""
    /\ stored = customers /\ peer = customers
    /\ activeSection = "overview"
    /\ listSmsStatus = NoStatus
    /\ smsRequests = <<>>
    /\ smsLogs = <<>>

(* ------------------------- the lookup effect -------------------------- *)
\* customers.find(c => c.mobile === fullMobile || c.mobile === mobile)
RECURSIVE FindFrom(_, _, _, _)
FindFrom(custs, i, fullMobile, mob) ==
    IF i > Len(custs) THEN Null
    ELSE IF custs[i].mobile = fullMobile \/ custs[i].mobile = mob THEN custs[i]
    ELSE FindFrom(custs, i + 1, fullMobile, mob)

\* The effect on [mobile, countryCode, customers, deadlineSettings,
\* tierSettings, lastTransactionDetails], run after a handler changed one of
\* them: the arguments are the values the handler left, and the effect gives
\* the next values of the variables it may set.
LookupEffect(mob, cc, custs, ltd, cur, isNew, showPin, showForm, elig) ==
    /\ usePointsAndDiscount' = FALSE
    /\ IF Len(mob) >= MinMobileLen
       THEN IF ltd # Null
            THEN /\ canUsePoints' = FALSE
                 /\ currentCustomer' = cur
                 /\ isNewCustomer' = isNew
                 /\ showPinSection' = showPin
                 /\ showTransactionForm' = showForm
                 /\ eligibility' = elig
            ELSE LET existingCustomer == FindFrom(custs, 1, cc \o mob, mob) IN
                 /\ currentCustomer' = existingCustomer
                 /\ showPinSection' = TRUE
                 /\ showTransactionForm' = FALSE
                 /\ isNewCustomer' = (existingCustomer = Null)
                 /\ eligibility' =
                        IF existingCustomer # Null
                        THEN checkDiscountEligibility(existingCustomer,
                                 deadlineSettings, tierSettings, now)
                        ELSE InitialEligibility
                 /\ canUsePoints' =
                        (existingCustomer # Null /\ existingCustomer.points > 0)
       ELSE /\ canUsePoints' = FALSE
            /\ showPinSection' = FALSE
            /\ currentCustomer' = Null
            /\ isNewCustomer' = isNew
            /\ showTransactionForm' = showForm
            /\ eligibility' = elig

(* ------------------------- the form's handlers ------------------------ *)
\* the entry form is rendered while no confirmation is shown
FormShown == activeSection = "transaction" /\ lastTransactionDetails = Null
\* the PIN block
PinShown == FormShown /\ showPinSection /\ ~showTransactionForm
\* the bill block
BillShown == FormShown /\ showTransactionForm
\* the redeem block
RedeemShown == BillShown /\ canUsePoints /\ currentCustomer # Null

setMobile(value) ==
    /\ FormShown /\ value # mobile
    /\ mobile' = value
    /\ LookupEffect(value, countryCode, customers, lastTransactionDetails,
                    currentCustomer, isNewCustomer, showPinSection,
                    showTransactionForm, eligibility)
    /\ alert' = ""
    /\ UNCHANGED <<ledger, now, countryCode, pin, billAmount, cashGiven,
                   pointsToUse, lastTransactionDetails>>
    /\ passed' = IF Len(value) >= MinMobileLen
                 THEN passed \cup {"MobileEntered"} ELSE passed
    /\ UNCHANGED <<activeSection, sms, store>>

setCountryCode(value) ==
    /\ FormShown /\ value # countryCode
    /\ countryCode' = value
    /\ LookupEffect(mobile, value, customers, lastTransactionDetails,
                    currentCustomer, isNewCustomer, showPinSection,
                    showTransactionForm, eligibility)
    /\ alert' = ""
    /\ UNCHANGED <<ledger, now, mobile, pin, billAmount, cashGiven,
                   pointsToUse, lastTransactionDetails>>
    /\ UNCHANGED <<activeSection, passed, sms, store>>

setPin(value) ==
    /\ PinShown /\ value # pin
    /\ pin' = value
    /\ alert' = ""
    /\ UNCHANGED <<ledger, now, countryCode, mobile, billAmount, cashGiven,
                   pointsToUse, usePointsAndDiscount, canUsePoints, flow>>
    /\ UNCHANGED <<activeSection, passed, sms, store>>

\* the PIN check of handlePinVerify
PinAccepted(isNew, customer, value) ==
    IF isNew THEN Len(value) = PinLen
    ELSE customer # Null /\ customer.pin = value

handlePinVerify ==
    /\ PinShown
    /\ IF PinAccepted(isNewCustomer, currentCustomer, pin)
       THEN showPinSection' = FALSE /\ showTransactionForm' = TRUE
       ELSE UNCHANGED <<showPinSection, showTransactionForm>>
    /\ alert' = ""
    /\ UNCHANGED <<ledger, now, form, currentCustomer, isNewCustomer,
                   eligibility, lastTransactionDetails>>
    /\ passed' = IF PinAccepted(isNewCustomer, currentCustomer, pin)
                 THEN passed \cup {"PinVerified"} ELSE passed
    /\ UNCHANGED <<activeSection, sms, store>>

setBillAmount(value) ==
    /\ BillShown /\ value # billAmount
    /\ billAmount' = value
    /\ alert' = ""
    /\ UNCHANGED <<ledger, now, countryCode, mobile, pin, cashGiven,
                   pointsToUse, usePointsAndDiscount, canUsePoints, flow>>
    /\ UNCHANGED <<activeSection, passed, sms, store>>

setCashGiven(value) ==
    /\ BillShown /\ value # cashGiven
    /\ cashGiven' = value
    /\ alert' = ""
    /\ UNCHANGED <<ledger, now, countryCode, mobile, pin, billAmount,
                   pointsToUse, usePointsAndDiscount, canUsePoints, flow>>
    /\ UNCHANGED <<activeSection, passed, sms, store>>

setPointsToUse(value) ==
    /\ RedeemShown /\ value # pointsToUse
    /\ pointsToUse' = value
    /\ alert' = ""
    /\ UNCHANGED <<ledger, now, countryCode, mobile, pin, billAmount,
                   cashGiven, usePointsAndDiscount, canUsePoints, flow>>
    /\ UNCHANGED <<activeSection, passed, sms, store>>

setUsePointsAndDiscount ==
    /\ RedeemShown
    /\ usePointsAndDiscount' = ~usePointsAndDiscount
    /\ alert' = ""
    /\ UNCHANGED <<ledger, now, countryCode, mobile, pin, billAmount,
                   cashGiven, pointsToUse, canUsePoints, flow>>
    /\ UNCHANGED <<activeSection, passed, sms, store>>

(* --------------------------- the transaction -------------------------- *)
billDetails ==
    BillOf(billAmount, cashGiven, usePointsAndDiscount, currentCustomer,
           discountSettings, tierSettings, eligibility.eligible, pointsToUse)

BillRejected_OnlyZero(subtotal) == subtotal = 0

\* if (!subtotal || subtotal <= 0) { alert(...); return; }
BillRejected(subtotal) == subtotal = 0 \/ subtotal <= 0

\* const cash = parseFloat(cashGiven); if (cash < cashPayable) { alert(...); return; }
\* a comparison with NaN is false
CashRejected(cash, cashPayable) == cash # NaN /\ cash[1] < cashPayable

newHistoryEntry(bd, usePoints, eligible, today) ==
    [date |-> today,
     bill |-> bd.subtotal,
     discountPercentage |->
         IF usePoints /\ eligible THEN <<bd.discountPercentage>> ELSE <<>>,
     finalBill |-> bd.finalBill,
     pointsUsed |-> IF usePoints /\ eligible THEN bd.pointsUsed ELSE 0,
     points |-> bd.pointsEarned]

AddCustomer_Prepends(custs, targetMobile, newPin, bd, entry) ==
    <<[mobile |-> targetMobile, pin |-> newPin,
       points |-> bd.pointsEarned, totalSpent |-> bd.finalBill,
       history |-> <<entry>>]>> \o custs

\* setCustomers(prev => [...prev, newCustomer])
AddCustomer(custs, targetMobile, newPin, bd, entry) ==
    Append(custs, [mobile |-> targetMobile, pin |-> newPin,
                   points |-> bd.pointsEarned, totalSpent |-> bd.finalBill,
                   history |-> <<entry>>])

UpdatedCustomer_AddsSubtotal(c, bd, entry) ==
    [c EXCEPT !.points = (c.points - bd.pointsUsed) + bd.pointsEarned,
              !.totalSpent = c.totalSpent + bd.subtotal,
              !.history = Append(c.history, entry)]

UpdatedCustomer_KeepsPoints(c, bd, entry) ==
    [c EXCEPT !.points = c.points + bd.pointsEarned,
              !.totalSpent = c.totalSpent + bd.finalBill,
              !.history = Append(c.history, entry)]

\* { ...c, points: finalPoints, totalSpent: c.totalSpent + finalBill, history: [...] }
UpdatedCustomer(c, bd, entry) ==
    [c EXCEPT !.points = (c.points - bd.pointsUsed) + bd.pointsEarned,
              !.totalSpent = c.totalSpent + bd.finalBill,
              !.history = Append(c.history, entry)]

UpdateCustomers_IgnoresKey(custs, targetMobile, bd, entry) ==
    [i \in 1..Len(custs) |-> UpdatedCustomer(custs[i], bd, entry)]

\* customers.map(c => c.mobile !== targetMobile ? c : { ... })
UpdateCustomers(custs, targetMobile, bd, entry) ==
    [i \in 1..Len(custs) |->
        IF custs[i].mobile # targetMobile THEN custs[i]
        ELSE UpdatedCustomer(custs[i], bd, entry)]

\* newTotalPoints as the map leaves it: the last matching customer's
\* finalPoints, 0 when none matches
FinalPointsOf(custs, targetMobile, bd) ==
    LET hits == {i \in 1..Len(custs) : custs[i].mobile = targetMobile} IN
    IF hits = {} THEN 0
    ELSE LET last == CHOOSE i \in hits : \A j \in hits : j <= i
         IN  (custs[last].points - bd.pointsUsed) + bd.pointsEarned

ExistingDeadlineDays_NoClamp(elig, customer, newTotalPoints, tiers, deadlines) ==
    IF elig.deadline # <<>> /\ elig.daysSinceLastTxn # <<>>
    THEN <<elig.deadline[1] - elig.daysSinceLastTxn[1]>>
    ELSE IF customer # Null
    THEN <<TierKey(getTierByPoints([customer EXCEPT !.points = newTotalPoints],
                                   tiers), deadlines)>>
    ELSE <<>>

\* deadlineDays of an existing-customer transaction
ExistingDeadlineDays(elig, customer, newTotalPoints, tiers, deadlines) ==
    IF elig.deadline # <<>> /\ elig.daysSinceLastTxn # <<>>
    THEN <<Max2(0, elig.deadline[1] - elig.daysSinceLastTxn[1])>>
    ELSE IF customer # Null
    THEN <<TierKey(getTierByPoints([customer EXCEPT !.points = newTotalPoints],
                                   tiers), deadlines)>>
    ELSE <<>>

TargetMobile ==
    IF currentCustomer # Null THEN currentCustomer.mobile
    ELSE countryCode \o mobile

\* the customers a submit of the present form would store
NextCustomers(bd) ==
    LET entry == newHistoryEntry(bd, usePointsAndDiscount, eligibility.eligible, now) IN
    IF isNewCustomer
    THEN AddCustomer(customers, TargetMobile, pin, bd, entry)
    ELSE UpdateCustomers(customers, TargetMobile, bd, entry)

\* the details a submit of the present form would show
NextDetails(bd) ==
    LET newTotalPoints ==
            IF isNewCustomer THEN bd.pointsEarned
            ELSE FinalPointsOf(customers, TargetMobile, bd)
        deadlineDays ==
            IF isNewCustomer THEN <<deadlineSettings.bronze>>
            ELSE ExistingDeadlineDays(eligibility, currentCustomer, newTotalPoints,
                                      tierSettings, deadlineSettings)
    IN  [mobile |-> TargetMobile, finalBill |-> bd.finalBill,
         pointsUsed |-> bd.pointsUsed, pointsEarned |-> bd.pointsEarned,
         newTotalPoints |-> newTotalPoints, deadlineDays |-> deadlineDays]

\* handleTransactionSubmit, for a collection that may hold up to `limit`
\* history entries
handleTransactionSubmitWithin(limit) ==
    /\ BillShown
    /\ LET bd == billDetails IN
       IF BillRejected(bd.subtotal)
       THEN /\ alert' = "Please enter a valid Bill Amount"
            /\ UNCHANGED <<ledger, now, form, flow, stored>>
       ELSE IF CashRejected(parseFloat(cashGiven), bd.cashPayable)
       THEN /\ alert' = "Cash Given cannot be less than the amount payable."
            /\ UNCHANGED <<ledger, now, form, flow, stored>>
       ELSE /\ TotalTxns(NextCustomers(bd)) <= limit
            /\ customers' = NextCustomers(bd)
            /\ stored' = customers'
            /\ lastTransactionDetails' = NextDetails(bd)
            /\ LookupEffect(mobile, countryCode, customers',
                            lastTransactionDetails', currentCustomer,
                            isNewCustomer, FALSE, FALSE, eligibility)
            /\ alert' = ""
            /\ UNCHANGED <<tierSettings, discountSettings, deadlineSettings, now,
                           countryCode, mobile, pin, billAmount, cashGiven,
                           pointsToUse>>
    /\ UNCHANGED <<activeSection, passed, sms, peer>>

handleTransactionSubmit == handleTransactionSubmitWithin(MaxTxns)

\* "Start New Transaction"
resetForm ==
    /\ activeSection = "transaction"
    /\ lastTransactionDetails # Null
    /\ mobile' = "" /\ pin' = "" /\ billAmount' = "" /\ cashGiven' = ""
    /\ lastTransactionDetails' = Null
    /\ LookupEffect("", countryCode, customers, Null, Null, FALSE, FALSE, TRUE,
                    InitialEligibility)
    /\ alert' = ""
    /\ UNCHANGED <<ledger, now, countryCode, pointsToUse>>
    /\ smsStatus' = "idle"
    /\ passed' = {}
    /\ UNCHANGED <<activeSection, listSmsStatus, smsRequests, smsLogs, store>>

\* handleNavClick: every click on the side bar sets the section shown and
\* changes the content's key, so the section is mounted anew with its initial
\* state, and the section that was on screen no longer takes the answers to
\* its requests
handleNavClick(section) ==
    /\ activeSection' = section
    /\ countryCode' = "+91" /\ mobile' = "" /\ pin' = ""
    /\ billAmount' = "" /\ cashGiven' = "" /\ pointsToUse' = ""
    /\ usePointsAndDiscount' = FALSE /\ canUsePoints' = FALSE
    /\ currentCustomer' = Null /\ isNewCustomer' = FALSE
    /\ showPinSection' = FALSE /\ showTransactionForm' = TRUE
    /\ eligibility' = InitialEligibility
    /\ lastTransactionDetails' = Null
    /\ smsStatus' = "idle"
    /\ listSmsStatus' = NoStatus
    /\ passed' = {}
    /\ smsRequests' = [i \in 1..Len(smsRequests) |->
                          [smsRequests[i] EXCEPT !.live = FALSE]]
    /\ alert' = ""
    /\ UNCHANGED <<ledger, now, smsLogs, store>>

\* Time passes.  Only differences of times are ever read (an entry's date
\* against another's, or against today), so the clock starts with the first
\* stored entry.
Tick ==
    /\ now < MaxNow
    /\ customers # <<>>
    /\ now' = now + 1
    /\ alert' = ""
    /\ UNCHANGED <<ledger, form, flow>>
    /\ UNCHANGED <<activeSection, passed, sms, store>>

Next ==
    \/ \E value \in Mobiles : setMobile(value)
    \/ \E value \in CountryCodes : setCountryCode(value)
    \/ \E value \in Pins : setPin(value)
    \/ handlePinVerify
    \/ \E value \in BillTexts : setBillAmount(value)
    \/ \E value \in CashTexts : setCashGiven(value)
    \/ \E value \in PointsTexts : setPointsToUse(value)
    \/ setUsePointsAndDiscount
    \/ handleTransactionSubmit
    \/ resetForm
    \/ \E section \in Sections : handleNavClick(section)
    \/ Tick

Spec == Init /\ [][Next]_vars

(* ------------------------- the settings editors ----------------------- *)
\* Settings an operator may save: each field is parseInt(text, 10) || 0 of a
\* text of digits, so any non-negative integers, in any order across tiers.
OddTierSettings ==
    [bronze   |-> [minSpend |-> 0, minPoints |-> 0],
     silver   |-> [minSpend |-> 6, minPoints |-> 3],
     gold     |-> [minSpend |-> 4, minPoints |-> 1],
     platinum |-> [minSpend |-> 8, minPoints |-> 200]]
HighDiscountSettings ==
    [bronze |-> 150, silver |-> 50, gold |-> 100, platinum |-> 15]
ShortDeadlineSettings ==
    [bronze |-> 0, silver |-> 1, gold |-> 0, platinum |-> 60]

TierChoices     == {DEFAULT_TIER_SETTINGS, OddTierSettings}
DiscountChoices == {DEFAULT_DISCOUNT_SETTINGS, HighDiscountSettings}
DeadlineChoices == {DEFAULT_DEADLINE_SETTINGS, ShortDeadlineSettings}

\* TierSettingsEditor.handleSaveChanges
saveTierSettings(newSettings) ==
    /\ activeSection = "settings"
    /\ newSettings # tierSettings
    /\ tierSettings' = newSettings
    /\ alert' = ""
    /\ UNCHANGED <<customers, discountSettings, deadlineSettings, now, form, flow>>
    /\ UNCHANGED <<activeSection, passed, sms, store>>

\* DiscountSettingsEditor.handleSaveChanges
saveDiscountSettings(newSettings) ==
    /\ activeSection = "settings"
    /\ newSettings # discountSettings
    /\ discountSettings' = newSettings
    /\ alert' = ""
    /\ UNCHANGED <<customers, tierSettings, deadlineSettings, now, form, flow>>
    /\ UNCHANGED <<activeSection, passed, sms, store>>

\* DeadlineSettingsEditor.handleSaveChanges
saveDeadlineSettings(newSettings) ==
    /\ activeSection = "settings"
    /\ newSettings # deadlineSettings
    /\ deadlineSettings' = newSettings
    /\ alert' = ""
    /\ UNCHANGED <<customers, tierSettings, discountSettings, now, form, flow>>
    /\ UNCHANGED <<activeSection, passed, sms, store>>

\* The session with the settings section: the dashboard renders one section
\* at a time, so a save happens while the transaction section is not mounted.
NextSettings ==
    \/ \E value \in Mobiles : setMobile(value)
    \/ \E value \in Pins : setPin(value)
    \/ handlePinVerify
    \/ \E value \in {"4"} : setBillAmount(value)
    \/ \E value \in {"2", "5"} : setCashGiven(value)
    \/ \E value \in PointsTexts : setPointsToUse(value)
    \/ setUsePointsAndDiscount
    \/ handleTransactionSubmit
    \/ resetForm
    \/ \E section \in Sections : handleNavClick(section)
    \/ Tick
    \/ \E newSettings \in TierChoices : saveTierSettings(newSettings)
    \/ \E newSettings \in DiscountChoices : saveDiscountSettings(newSettings)
    \/ \E newSettings \in DeadlineChoices : saveDeadlineSettings(newSettings)

SpecSettings == Init /\ [][NextSettings]_vars

(* ------------------- sessions over a stored collection ----------------- *)
\* A customer as the store holds it after one undiscounted transaction at
\* time 0 (whole units).
StoredCustomer(points, spent) ==
    [mobile |-> "+919876543210", pin |-> "1234",
     points |-> points * Scale, totalSpent |-> spent * Scale,
     history |-> <<[date |-> 0, bill |-> spent * Scale,
                    discountPercentage |-> <<>>, finalBill |-> spent * Scale,
                    pointsUsed |-> 0, points |-> points * Scale]>>]

StoredPoints == {0, 1, 3, 150}
StoredSpent  == {4, 2500}

\* The bill block, open for a stored customer whose PIN was verified (or
\* for no customer, as the section is mounted), under any saved settings, on
\* the day of the customer's last transaction or the day after.
InitBill ==
    /\ tierSettings \in TierChoices
    /\ discountSettings \in DiscountChoices
    /\ deadlineSettings \in DeadlineChoices
    /\ now \in {0, DayLen}
    /\ \E points \in StoredPoints, spent \in StoredSpent :
          customers = <<StoredCustomer(points, spent)>>
    /\ countryCode = "+91" /\ pin = "1234"
    /\ billAmount = "" /\ cashGiven = "" /\ pointsToUse = ""
    /\ usePointsAndDiscount = FALSE
    /\ isNewCustomer = FALSE
    /\ showPinSection = FALSE /\ showTransactionForm = TRUE
    /\ lastTransactionDetails = Null
    /\ alert = ""
    /\ stored = customers /\ peer = customers
    /\ activeSection = "transaction"
    /\ smsStatus = "idle" /\ listSmsStatus = NoStatus
    /\ smsRequests = <<>> /\ smsLogs = <<>>
    /\ \/ /\ mobile = "9876543210"
          /\ passed = {"MobileEntered", "PinVerified"}
          /\ currentCustomer = customers[1]
          /\ canUsePoints = (customers[1].points > 0)
          /\ eligibility = checkDiscountEligibility(customers[1],
                               deadlineSettings, tierSettings, now)
       \/ /\ mobile = ""
          /\ passed = {}
          /\ currentCustomer = Null
          /\ canUsePoints = FALSE
          /\ eligibility = InitialEligibility

NextBill ==
    \/ \E value \in BillTexts : setBillAmount(value)
    \/ \E value \in CashTexts \cup {"5"} : setCashGiven(value)
    \/ \E value \in PointsTexts \cup {"5"} : setPointsToUse(value)
    \/ setUsePointsAndDiscount

SpecBill == InitBill /\ [][NextBill]_vars

ZeroTierSettings ==
    [bronze   |-> [minSpend |-> 0, minPoints |-> 0],
     silver   |-> [minSpend |-> 0, minPoints |-> 0],
     gold     |-> [minSpend |-> 0, minPoints |-> 0],
     platinum |-> [minSpend |-> 0, minPoints |-> 0]]

\* thresholds where Bronze's own are above zero
FloorTierSettings ==
    [bronze   |-> [minSpend |-> 6,     minPoints |-> 3],
     silver   |-> [minSpend |-> 7,     minPoints |-> 4],
     gold     |-> [minSpend |-> 2500,  minPoints |-> 150],
     platinum |-> [minSpend |-> 60000, minPoints |-> 3000]]

AllTierChoices == TierChoices \cup {ZeroTierSettings, FloorTierSettings}
GridPoints == {0, 2, 4, 150, 3000}
GridSpent  == {0, 5, 7, 2500, 60000}

\* The section as mounted over a stored customer, under any saved tier
\* settings; the customer is looked up and the tier settings are edited.
InitTier ==
    /\ tierSettings \in AllTierChoices
    /\ discountSettings = DEFAULT_DISCOUNT_SETTINGS
    /\ deadlineSettings = DEFAULT_DEADLINE_SETTINGS
    /\ now = 0
    /\ \E points \in GridPoints, spent \in GridSpent :
          customers = <<StoredCustomer(points, spent)>>
    /\ MountedForm
    /\ alert = ""
    /\ stored = customers /\ peer = customers
    /\ activeSection = "transaction"
    /\ listSmsStatus = NoStatus
    /\ smsRequests = <<>> /\ smsLogs = <<>>

NextTier ==
    \/ \E value \in Mobiles : setMobile(value)
    \/ \E value \in Pins : setPin(value)
    \/ handlePinVerify
    \/ \E section \in Sections : handleNavClick(section)
    \/ \E newSettings \in AllTierChoices : saveTierSettings(newSettings)

SpecTier == InitTier /\ [][NextTier]_vars

\* The stored collection of a tenant with two customers, under different
\* country codes, each after one undiscounted transaction at time 0.
StoredTxns == 2

InitLedger ==
    /\ tierSettings = DEFAULT_TIER_SETTINGS
    /\ discountSettings = DEFAULT_DISCOUNT_SETTINGS
    /\ deadlineSettings = DEFAULT_DEADLINE_SETTINGS
    /\ now = 0
    /\ \E points \in {0, 3} :
          customers = <<StoredCustomer(points, 4),
                        [StoredCustomer(150, 4) EXCEPT !.mobile = "+19876543210"]>>
    /\ MountedForm
    /\ alert = ""
    /\ stored = customers /\ peer = customers
    /\ activeSection = "transaction"
    /\ listSmsStatus = NoStatus
    /\ smsRequests = <<>> /\ smsLogs = <<>>

NextLedger ==
    \/ \E value \in Mobiles : setMobile(value)
    \/ \E value \in CountryCodes : setCountryCode(value)
    \/ \E value \in Pins : setPin(value)
    \/ handlePinVerify
    \/ \E value \in {"4"} : setBillAmount(value)
    \/ \E value \in {"2", "5"} : setCashGiven(value)
    \/ \E value \in PointsTexts : setPointsToUse(value)
    \/ setUsePointsAndDiscount
    \/ handleTransactionSubmitWithin(StoredTxns + MaxTxns)
    \/ resetForm
    \/ \E section \in Sections : handleNavClick(section)

SpecLedger == InitLedger /\ [][NextLedger]_vars

\* Histories as the store may hold them: none, and entries whose dates are
\* in any order (the store is read as it is, and the latest entry is
\* searched for, not assumed to be the last).
StoredDates == {<<>>, <<0>>, <<0, 1>>, <<1, 0>>, <<2, 0>>}

StoredEntry(date) ==
    [date |-> date, bill |-> 4 * Scale, discountPercentage |-> <<>>,
     finalBill |-> 4 * Scale, pointsUsed |-> 0, points |-> 0]

InitEligibility ==
    /\ tierSettings = DEFAULT_TIER_SETTINGS
    /\ discountSettings = DEFAULT_DISCOUNT_SETTINGS
    /\ deadlineSettings = DEFAULT_DEADLINE_SETTINGS
    /\ now = 0
    /\ \E points \in {0, 3, 150}, spent \in StoredSpent, dates \in StoredDates :
          customers = <<[StoredCustomer(points, spent) EXCEPT
                            !.history = [i \in 1..Len(dates) |-> StoredEntry(dates[i])]]>>
    /\ MountedForm
    /\ alert = ""
    /\ stored = customers /\ peer = customers
    /\ activeSection = "transaction"
    /\ listSmsStatus = NoStatus
    /\ smsRequests = <<>> /\ smsLogs = <<>>

\* The customer is looked up as time passes and the settings are edited.
NextEligibility ==
    \/ \E value \in Mobiles : setMobile(value)
    \/ \E section \in Sections : handleNavClick(section)
    \/ \E newSettings \in TierChoices : saveTierSettings(newSettings)
    \/ \E newSettings \in DeadlineChoices : saveDeadlineSettings(newSettings)
    \/ Tick

SpecEligibility == InitEligibility /\ [][NextEligibility]_vars

\* Transactions of a stored customer with one entry in the history or with
\* none, under any saved deadlines, as time passes.
InitDeadline ==
    /\ tierSettings = DEFAULT_TIER_SETTINGS
    /\ discountSettings = DEFAULT_DISCOUNT_SETTINGS
    /\ deadlineSettings \in DeadlineChoices
    /\ now = 0
    /\ \E points \in {0, 3, 150}, dates \in {<<>>, <<0>>} :
          customers = <<[StoredCustomer(points, 4) EXCEPT
                            !.history = [i \in 1..Len(dates) |-> StoredEntry(dates[i])]]>>
    /\ MountedForm
    /\ alert = ""
    /\ stored = customers /\ peer = customers
    /\ activeSection = "transaction"
    /\ listSmsStatus = NoStatus
    /\ smsRequests = <<>> /\ smsLogs = <<>>

NextDeadline ==
    \/ \E value \in Mobiles : setMobile(value)
    \/ \E value \in Pins : setPin(value)
    \/ handlePinVerify
    \/ \E value \in {"4"} : setBillAmount(value)
    \/ \E value \in {"5", "200"} : setCashGiven(value)
    \/ handleTransactionSubmitWithin(1 + MaxTxns)
    \/ resetForm
    \/ \E section \in Sections : handleNavClick(section)
    \/ Tick

SpecDeadline == InitDeadline /\ [][NextDeadline]_vars

(* ----------------------------- notifications -------------------------- *)
smsButtonDisabled_AfterFailure(status) == status # "idle"

\* the disabled attribute of the SMS buttons
smsButtonDisabled(status) == status = "sending" \/ status = "sent"

\* the status CustomersSection shows for a mobile: undefined until set
ListStatusOf(key) ==
    IF key \in DOMAIN listSmsStatus THEN listSmsStatus[key] ELSE "idle"

SetListStatus(status, key, value) ==
    [m \in DOMAIN status \cup {key} |-> IF m = key THEN value ELSE status[m]]

\* a request to /api/send-sms with what the handler that made it holds on to:
\* the section instance that awaits the answer (live until it is unmounted),
\* the details shown, and the log setSmsLogs was created over
SmsRequest(to, section, details) ==
    [to |-> to, section |-> section, live |-> TRUE, details |-> details,
     logs |-> smsLogs]

Remove(requests, i) ==
    SubSeq(requests, 1, i - 1) \o SubSeq(requests, i + 1, Len(requests))

\* TransactionSection.handleSendSms, up to the await of fetch
handleSendSms ==
    /\ activeSection = "transaction"
    /\ lastTransactionDetails # Null
    /\ ~smsButtonDisabled(smsStatus)
    /\ Len(smsRequests) + Len(smsLogs) < MaxSms
    /\ smsStatus' = "sending"
    /\ smsRequests' = Append(smsRequests,
           SmsRequest(lastTransactionDetails.mobile, "transaction",
                      lastTransactionDetails))
    /\ alert' = ""
    /\ UNCHANGED <<ledger, now, form, flow, activeSection, passed, store,
                   listSmsStatus, smsLogs>>

listHandleSendSms_AnyMobile(customer) ==
    /\ activeSection = "customers"
    /\ ~smsButtonDisabled(ListStatusOf(customer.mobile))
    /\ Len(smsRequests) + Len(smsLogs) < MaxSms
    /\ listSmsStatus' = SetListStatus(listSmsStatus, customer.mobile, "sending")
    /\ smsRequests' = Append(smsRequests,
           SmsRequest(countryCode \o mobile, "customers", Null))
    /\ alert' = ""
    /\ UNCHANGED <<ledger, now, form, flow, activeSection, passed, store,
                   smsStatus, smsLogs>>

\* CustomersSection.handleSendSms(customer), up to the await of fetch
listHandleSendSms(customer) ==
    /\ activeSection = "customers"
    /\ ~smsButtonDisabled(ListStatusOf(customer.mobile))
    /\ Len(smsRequests) + Len(smsLogs) < MaxSms
    /\ listSmsStatus' = SetListStatus(listSmsStatus, customer.mobile, "sending")
    /\ smsRequests' = Append(smsRequests,
           SmsRequest(customer.mobile, "customers", Null))
    /\ alert' = ""
    /\ UNCHANGED <<ledger, now, form, flow, activeSection, passed, store,
                   smsStatus, smsLogs>>

SmsOutcomes == {"success", "failure", "raise"}

\* The rest of either handler, run when the answer to request i arrives:
\* data.success, data.success = false, or fetch / response.json() raising.
\* A section that was unmounted meanwhile no longer takes the status;
\* setSmsLogs belongs to App and still runs, over the log it was created with.
SmsResponse(i, outcome) ==
    /\ i \in 1..Len(smsRequests)
    /\ LET request == smsRequests[i]
           status  == IF outcome = "success" THEN "sent" ELSE "failed"
       IN  /\ smsRequests' = Remove(smsRequests, i)
           /\ smsStatus' =
                 IF request.section = "transaction" /\ request.live
                 THEN status ELSE smsStatus
           /\ listSmsStatus' =
                 IF request.section = "customers" /\ request.live
                 THEN SetListStatus(listSmsStatus, request.to, status)
                 ELSE listSmsStatus
           /\ smsLogs' =
                 IF request.section = "transaction" /\ outcome = "success"
                 THEN <<[timestamp |-> now, recipientMobile |-> request.to]>>
                          \o request.logs
                 ELSE smsLogs
    /\ alert' = ""
    /\ UNCHANGED <<ledger, now, form, flow, activeSection, passed, store>>

NextSms ==
    \/ \E value \in Mobiles : setMobile(value)
    \/ \E value \in Pins : setPin(value)
    \/ handlePinVerify
    \/ \E value \in {"4"} : setBillAmount(value)
    \/ \E value \in {"5"} : setCashGiven(value)
    \/ handleTransactionSubmit
    \/ resetForm
    \/ \E section \in Sections : handleNavClick(section)
    \/ handleSendSms
    \/ \E i \in 1..Len(customers) : listHandleSendSms(customers[i])
    \/ \E i \in 1..MaxSms, outcome \in SmsOutcomes : SmsResponse(i, outcome)

SpecSms == Init /\ [][NextSms]_vars

(* --------------------------- a second session ------------------------- *)
\* Two tabs of one tenant run the same program over the same localStorage
\* item.  Each holds the collection in its App's state, read from the item
\* when the page is loaded (useState(readValue)), and writes the whole
\* collection back on each setCustomers.  Nothing listens to the storage
\* event, so a tab reads the item again only when it is loaded again.

\* the bill of the other tab's transaction: bill 4, cash 5, nothing redeemed
PeerBill ==
    BillOf("4", "5", FALSE, Null, discountSettings, tierSettings, TRUE, "")

\* the collection handleTransactionSubmit stores in the other tab, after its
\* lookup of mobile 9876543210 under country code cc and the PIN step
PeerCustomers(cc) ==
    LET mob == "9876543210"
        existingCustomer == FindFrom(peer, 1, cc \o mob, mob)
        entry == newHistoryEntry(PeerBill, FALSE, TRUE, now)
    IN  IF existingCustomer = Null
        THEN AddCustomer(peer, cc \o mob, "1234", PeerBill, entry)
        ELSE UpdateCustomers(peer, existingCustomer.mobile, PeerBill, entry)

\* handleTransactionSubmit in the other tab
peerSubmit(cc) ==
    /\ TotalTxns(PeerCustomers(cc)) <= MaxTxns
    /\ peer' = PeerCustomers(cc)
    /\ stored' = peer'
    /\ UNCHANGED <<ledger, now, form, flow, alert, activeSection, passed, sms>>

\* the other tab is loaded again
peerLoad ==
    /\ peer # stored
    /\ peer' = stored
    /\ UNCHANGED <<ledger, now, form, flow, alert, activeSection, passed, sms,
                   stored>>

\* this tab is loaded again: App reads the item, the dashboard starts on the
\* overview, and the handlers awaiting an answer are gone with the page
reload ==
    /\ customers # stored
    /\ customers' = stored
    /\ activeSection' = "overview"
    /\ countryCode' = "+91" /\ mobile' = "" /\ pin' = ""
    /\ billAmount' = "" /\ cashGiven' = "" /\ pointsToUse' = ""
    /\ usePointsAndDiscount' = FALSE /\ canUsePoints' = FALSE
    /\ currentCustomer' = Null /\ isNewCustomer' = FALSE
    /\ showPinSection' = FALSE /\ showTransactionForm' = TRUE
    /\ eligibility' = InitialEligibility
    /\ lastTransactionDetails' = Null
    /\ smsStatus' = "idle"
    /\ listSmsStatus' = NoStatus
    /\ passed' = {}
    /\ smsRequests' = <<>>
    /\ alert' = ""
    /\ UNCHANGED <<tierSettings, discountSettings, deadlineSettings, now,
                   smsLogs, stored, peer>>

NextTabs ==
    \/ \E value \in Mobiles : setMobile(value)
    \/ \E value \in Pins : setPin(value)
    \/ handlePinVerify
    \/ \E value \in {"4"} : setBillAmount(value)
    \/ \E value \in {"5"} : setCashGiven(value)
    \/ handleTransactionSubmit
    \/ resetForm
    \/ \E section \in Sections : handleNavClick(section)
    \/ Tick
    \/ \E cc \in CountryCodes : peerSubmit(cc)
    \/ peerLoad
    \/ reload

SpecTabs == Init /\ [][NextTabs]_vars

(* ====================================================================== *)
(*                               properties                               *)
(* ====================================================================== *)
RECURSIVE SumFinalBill(_)
SumFinalBill(history) ==
    IF history = <<>> THEN 0
    ELSE history[1].finalBill + SumFinalBill(Tail(history))

\* a commit: the step that shows the confirmation
CommitStep == lastTransactionDetails = Null /\ lastTransactionDetails' # Null

\* the positions in a collection that hold the key
Holders(custs, key) == {i \in 1..Len(custs) : custs[i].mobile = key}

(* C1: in every reachable state, every customer's totalSpent equals the sum
   of the finalBill values of the entries of that customer's history (every
   customer is created by a committed transaction: the collection starts
   empty). *)
C1_TotalSpentIsSumOfHistory ==
    \A i \in 1..Len(customers) :
        customers[i].totalSpent = SumFinalBill(customers[i].history)

\* a customer with two entries, the second one discounted
C1_Witness ==
    \E i \in 1..Len(customers) :
        /\ Len(customers[i].history) = 2
        /\ customers[i].history[2].finalBill < customers[i].history[2].bill
        /\ customers[i].history[2].finalBill > 0

(* C2: after any sequence of committed transactions, with any saved
   settings, every customer's points balance is >= 0. *)
C2_PointsNeverNegative ==
    \A i \in 1..Len(customers) : customers[i].points >= 0

\* an existing customer has just redeemed the whole balance while not
\* eligible for the discount
C2_Witness ==
    /\ lastTransactionDetails # Null
    /\ lastTransactionDetails.pointsUsed > 0
    /\ ~eligibility.eligible
    /\ \E i \in Holders(customers, lastTransactionDetails.mobile) :
          /\ Len(customers[i].history) = 2
          /\ customers[i].points = lastTransactionDetails.pointsEarned


(* C3: the original statement: in every bill computation, for every         *)
(* customer and every input, pointsUsed <= customer.points and              *)
(* pointsUsed <= finalBill and pointsUsed <= requestedPoints (the text of   *)
(* the points field read as a number, a missing one as 0).                  *)
C3_ThreeWayMinAlways ==
    LET bd == billDetails IN
    /\ currentCustomer # Null => bd.pointsUsed <= currentCustomer.points
    /\ bd.pointsUsed <= bd.finalBill
    /\ bd.pointsUsed <= OrZero(parseFloat(pointsToUse))

Redeeming ==
    /\ usePointsAndDiscount
    /\ currentCustomer # Null
    /\ currentCustomer.points > 0

(* C3: in every bill computation that redeems (the redemption flag is set  *)
(* for a known customer with a positive balance) pointsUsed is at most the  *)
(* customer's points, at most finalBill and at most the requested points;   *)
(* in every other bill computation pointsUsed is 0.                         *)
C3_ThreeWayMinWhenRedeeming ==
    LET bd == billDetails IN
    /\ Redeeming =>
          /\ bd.pointsUsed <= currentCustomer.points
          /\ bd.pointsUsed <= bd.finalBill
          /\ bd.pointsUsed <= OrZero(parseFloat(pointsToUse))
    /\ ~Redeeming => bd.pointsUsed = 0

C3_Witness ==
    /\ Redeeming
    /\ billDetails.pointsUsed > 0
    /\ billDetails.pointsUsed = billDetails.finalBill
    /\ billDetails.pointsUsed < currentCustomer.points
    /\ billDetails.pointsUsed < OrZero(parseFloat(pointsToUse))

(* C4: in every bill computation pointsEarned is max(0, floor(cashGiven -   *)
(* cashPayable)): a whole number of points, 0 whenever the cash does not    *)
(* exceed the amount payable, and otherwise the largest whole number not    *)
(* above the excess; it is never negative.                                  *)
C4_PointsEarnedIsFlooredExcess ==
    LET bd     == billDetails
        excess == OrZero(parseFloat(cashGiven)) - bd.cashPayable
    IN  /\ bd.pointsEarned >= 0
        /\ bd.pointsEarned % Scale = 0
        /\ excess <= 0 => bd.pointsEarned = 0
        /\ excess > 0 => /\ bd.pointsEarned <= excess
                         /\ excess < bd.pointsEarned + Scale

C4_Witness ==
    LET bd     == billDetails
        excess == OrZero(parseFloat(cashGiven)) - bd.cashPayable
    IN  /\ bd.pointsEarned > 0
        /\ excess % Scale # 0
        /\ bd.pointsUsed > 0

(* C5: a committed transaction of an existing customer (read back by key)   *)
(* leaves totalSpent = old totalSpent + finalBill and points = old points   *)
(* - pointsUsed + pointsEarned, with exactly one entry added to history.    *)
C5_ExistingCustomerRoundTrip ==
    [][(CommitStep /\ ~isNewCustomer /\ Holders(customers, TargetMobile) # {}) =>
          LET d   == lastTransactionDetails'
              old == FindFrom(customers, 1, TargetMobile, TargetMobile)
              new == FindFrom(customers', 1, TargetMobile, TargetMobile)
          IN  /\ new # Null
              /\ new.totalSpent = old.totalSpent + d.finalBill
              /\ new.points = old.points - d.pointsUsed + d.pointsEarned
              /\ Len(new.history) = Len(old.history) + 1
              /\ SubSeq(new.history, 1, Len(old.history)) = old.history]_vars

C5_Witness ==
    /\ lastTransactionDetails # Null
    /\ lastTransactionDetails.pointsUsed > 0
    /\ lastTransactionDetails.pointsEarned > 0
    /\ \E i \in Holders(customers, lastTransactionDetails.mobile) :
          /\ Len(customers[i].history) = 2
          /\ customers[i].totalSpent > customers[i].history[1].finalBill

(* C6: a committed transaction of a new customer adds exactly one customer, *)
(* with points = pointsEarned, totalSpent = finalBill and a history of      *)
(* length 1, and leaves the customers there before unchanged, in order.     *)
C6_NewCustomerAppended ==
    [][(CommitStep /\ isNewCustomer) =>
          LET d == lastTransactionDetails'
              n == Len(customers)
          IN  /\ Len(customers') = n + 1
              /\ SubSeq(customers', 1, n) = customers
              /\ customers'[n + 1].mobile = TargetMobile
              /\ customers'[n + 1].points = d.pointsEarned
              /\ customers'[n + 1].totalSpent = d.finalBill
              /\ Len(customers'[n + 1].history) = 1
              /\ customers'[n + 1].history[1].finalBill = d.finalBill
              /\ customers'[n + 1].history[1].points = d.pointsEarned]_vars

C6_Witness ==
    /\ lastTransactionDetails # Null
    /\ Len(customers) = 2
    /\ customers[2].mobile = lastTransactionDetails.mobile
    /\ customers[2].mobile # customers[1].mobile
    /\ Len(customers[2].history) = 1
    /\ customers[2].points = lastTransactionDetails.pointsEarned
    /\ customers[2].points > 0

(* C7: for every customer and every tier settings, also settings whose      *)
(* thresholds are not ordered, the effective tier is the higher of the tier *)
(* by spend and the tier by points.                                         *)
C7_EffectiveTierIsMax ==
    \A c \in {customers[i] : i \in 1..Len(customers)}
             \cup (IF currentCustomer = Null THEN {} ELSE {currentCustomer}) :
        TierRank(getCustomerTier(c, tierSettings)) =
            Max2(TierRank(getTierBySpend(c, tierSettings)),
                 TierRank(getTierByPoints(c, tierSettings)))

C7_Witness ==
    /\ tierSettings = OddTierSettings
    /\ currentCustomer # Null
    /\ currentCustomer.totalSpent >= tierSettings.silver.minSpend * Scale
    /\ getTierBySpend(currentCustomer, tierSettings) = "Gold"
    /\ getTierByPoints(currentCustomer, tierSettings) = "Bronze"
    /\ getCustomerTier(currentCustomer, tierSettings) = "Gold"

(* C8: a transaction is committed only when cashGiven >= cashPayable, a     *)
(* missing or non-numeric cashGiven counting as 0: the collection of        *)
(* customers changes only in a step whose cash covers the amount payable.   *)
C8_CommitOnlyWhenCashCovers ==
    [][customers' # customers =>
          OrZero(parseFloat(cashGiven)) >= billDetails.cashPayable]_vars

InvalidBillText(text) ==
    \/ parseFloat(text) = NaN
    \/ parseFloat(text)[1] <= 0

(* C9: a submit whose bill amount is missing, not a number, zero or         *)
(* negative is rejected before anything is changed: every customer's        *)
(* points, totalSpent and history, and the transaction details, stay as     *)
(* they were.                                                               *)
C9_InvalidBillRejected ==
    [][(handleTransactionSubmit /\ InvalidBillText(billAmount)) =>
          /\ customers' = customers
          /\ lastTransactionDetails' = lastTransactionDetails
          /\ alert' = "Please enter a valid Bill Amount"]_vars

C9_Witness ==
    /\ alert = "Please enter a valid Bill Amount"
    /\ billAmount = "-2"
    /\ cashGiven = "200"
    /\ customers # <<>>
    /\ lastTransactionDetails = Null

(* C10: an existing-customer submit whose key is absent from the collection *)
(* fails: the collection is unchanged and the transaction is not reported   *)
(* as committed.                                                            *)
C10_AbsentKeyFails ==
    [][(handleTransactionSubmit /\ ~isNewCustomer
            /\ Holders(customers, TargetMobile) = {}) =>
          /\ customers' = customers
          /\ lastTransactionDetails' = Null]_vars


(* C11: the mobile number is a unique key: in every reachable state, after  *)
(* any mobile edits, country-code changes, PIN verifications, commits and   *)
(* form resets, no two customers of the collection have the same mobile.    *)
C11_MobileIsUniqueKey ==
    \A i, j \in 1..Len(customers) :
        i # j => customers[i].mobile # customers[j].mobile


(* C12: a transaction reaches Committed only through MobileEntered, then    *)
(* PinVerification, then TransactionForm: every step that shows the success *)
(* confirmation belongs to a flow in which a mobile number of at least 10   *)
(* digits was entered and a PIN was verified.                               *)
C12_CommitOnlyAfterMobileAndPin ==
    [][CommitStep => {"MobileEntered", "PinVerified"} \subseteq passed]_vars


(* C13: across any sequence of committed transactions and settings saves,   *)
(* every customer's totalSpent is non-negative and never decreases from one *)
(* state to the next.                                                       *)
C13_TotalSpentMonotone ==
    [][\A i \in 1..Len(customers) :
          /\ customers[i].totalSpent >= 0
          /\ i <= Len(customers') => /\ customers'[i].totalSpent >= 0
                                     /\ customers'[i].totalSpent >= customers[i].totalSpent]_vars


\* the history customer i of a collection has, none for an index not in it
HistoryAt(custs, i) == IF i <= Len(custs) THEN custs[i].history ELSE <<>>

IsPrefix(h, g) == Len(h) <= Len(g) /\ SubSeq(g, 1, Len(h)) = h

(* C14: history is append-only and its entries are immutable: in every      *)
(* step each customer's previous history is a prefix of its next history,   *)
(* and a commit (a step that shows the success confirmation) extends        *)
(* exactly one customer's history, by exactly one entry at the end.         *)
C14_HistoryAppendOnly ==
    [][/\ Len(customers) <= Len(customers')
       /\ \A i \in 1..Len(customers) :
             IsPrefix(customers[i].history, HistoryAt(customers', i))
       /\ CommitStep =>
             \E i \in 1..Len(customers') :
                /\ Len(customers'[i].history) = Len(HistoryAt(customers, i)) + 1
                /\ \A j \in 1..Len(customers') :
                      j # i => customers'[j].history = HistoryAt(customers, j)]_vars


\* customer i of the next collection is the record a commit of the present
\* form writes for a customer who was `old` (Null for a customer not there)
WrittenWhole(old, new) ==
    LET d     == lastTransactionDetails'
        entry == new.history[Len(new.history)]
    IN  /\ new.mobile = TargetMobile
        /\ Len(new.history) = (IF old = Null THEN 0 ELSE Len(old.history)) + 1
        /\ entry.finalBill = d.finalBill /\ entry.points = d.pointsEarned
        /\ new.totalSpent = (IF old = Null THEN 0 ELSE old.totalSpent) + d.finalBill
        /\ new.points = (IF old = Null THEN 0 ELSE old.points - d.pointsUsed)
                            + d.pointsEarned

(* C15: a commit is atomic per customer key: in every step, a customer      *)
(* record that changes (or appears) is the target's, and its points,        *)
(* totalSpent and history change together (one entry appended, totalSpent   *)
(* and points moved by that transaction's amounts); every customer with a   *)
(* different key is left unchanged.                                         *)
C15_CommitAtomicPerKey ==
    [][/\ Len(customers) <= Len(customers')
       /\ \A i \in 1..Len(customers') :
             IF i > Len(customers)
             THEN CommitStep /\ WrittenWhole(Null, customers'[i])
             ELSE \/ customers'[i] = customers[i]
                  \/ /\ CommitStep
                     /\ customers[i].mobile = TargetMobile
                     /\ WrittenWhole(customers[i], customers'[i])]_vars

C15_Witness ==
    /\ lastTransactionDetails # Null
    /\ Len(customers) = 2
    /\ customers[1].mobile = lastTransactionDetails.mobile
    /\ Len(customers[1].history) = 2
    /\ lastTransactionDetails.pointsUsed > 0
    /\ lastTransactionDetails.pointsEarned > 0
    /\ Len(customers[2].history) = 1


DiscountApplies ==
    /\ usePointsAndDiscount
    /\ eligibility.eligible
    /\ currentCustomer # Null
    /\ billDetails.subtotal > 0

(* C16: the tier discount is non-zero only if the redemption flag is set,   *)
(* the customer is eligible, the customer is known and subtotal > 0; in     *)
(* that case discountPercentage = discountSettings[effective tier] and      *)
(* discountAmount = subtotal * discountPercentage / 100; in every other     *)
(* case discountPercentage = 0, discountAmount = 0 and finalBill = subtotal.*)
C16_DiscountRule ==
    LET bd == billDetails IN
    /\ (bd.discountPercentage # 0 \/ bd.discountAmount # 0) => DiscountApplies
    /\ DiscountApplies =>
          /\ bd.discountPercentage =
                TierKey(getCustomerTier(currentCustomer, tierSettings), discountSettings)
          /\ bd.discountAmount * 100 = bd.subtotal * bd.discountPercentage
          /\ bd.finalBill = bd.subtotal - bd.discountAmount
    /\ ~DiscountApplies =>
          /\ bd.discountPercentage = 0
          /\ bd.discountAmount = 0
          /\ bd.finalBill = bd.subtotal

\* the discount of the effective tier is taken, which here is not the
\* discount of the points tier
C16_Witness ==
    /\ DiscountApplies
    /\ billDetails.discountAmount > 0
    /\ billDetails.discountPercentage #
          TierKey(getTierByPoints(currentCustomer, tierSettings), discountSettings)


\* the greatest date of a non-empty history
MaxDate(history) ==
    CHOOSE d \in {history[i].date : i \in 1..Len(history)} :
        \A i \in 1..Len(history) : history[i].date <= d

(* C17: for a customer with non-empty history, eligibility reports          *)
(* daysSinceLastTransaction = the whole days (floored) between the entry    *)
(* with the greatest timestamp, wherever it sits in history, and now;       *)
(* deadlineDays = deadlineSettings of the customer's points tier; and       *)
(* eligible exactly when daysSinceLastTransaction <= deadlineDays.          *)
C17_EligibilityOfHistory ==
    \A i \in 1..Len(customers) :
        LET c == customers[i]
            e == checkDiscountEligibility(c, deadlineSettings, tierSettings, now)
        IN  Len(c.history) > 0 =>
              /\ e.daysSinceLastTxn # <<>>
              /\ e.daysSinceLastTxn[1] * DayLen <= now - MaxDate(c.history)
              /\ now - MaxDate(c.history) < (e.daysSinceLastTxn[1] + 1) * DayLen
              /\ e.pointsTier = getTierByPoints(c, tierSettings)
              /\ e.deadline = <<TierKey(getTierByPoints(c, tierSettings), deadlineSettings)>>
              /\ e.eligible = (e.daysSinceLastTxn[1] <= e.deadline[1])

\* a lookup on the boundary day: the latest entry is the first of two, part
\* of a day has passed, and the points tier is not the effective tier
C17_Witness ==
    /\ currentCustomer # Null
    /\ Len(currentCustomer.history) = 2
    /\ currentCustomer.history[1].date > currentCustomer.history[2].date
    /\ eligibility = checkDiscountEligibility(currentCustomer, deadlineSettings,
                                              tierSettings, now)
    /\ now > currentCustomer.history[1].date
    /\ eligibility.daysSinceLastTxn = <<0>>
    /\ eligibility.deadline = <<0>>
    /\ eligibility.eligible
    /\ getCustomerTier(currentCustomer, tierSettings) # eligibility.pointsTier

(* C18: for every customer whose history is empty, and for every settings   *)
(* value, eligibility evaluation returns eligible = true with               *)
(* daysSinceLastTransaction, deadlineDays and pointsTier all null.          *)
C18_EligibilityOfEmptyHistory ==
    \A i \in 1..Len(customers) :
        LET c == customers[i]
            e == checkDiscountEligibility(c, deadlineSettings, tierSettings, now)
        IN  Len(c.history) = 0 =>
              /\ e.eligible = TRUE
              /\ e.daysSinceLastTxn = <<>>
              /\ e.deadline = <<>>
              /\ e.pointsTier = "null"

C18_Witness ==
    /\ currentCustomer # Null
    /\ Len(currentCustomer.history) = 0
    /\ currentCustomer.points > 0
    /\ deadlineSettings = ShortDeadlineSettings
    /\ tierSettings = OddTierSettings
    /\ now > 0
    /\ eligibility.eligible
    /\ eligibility.deadline = <<>>


\* a step of the notify step: a send, or the answer to one
SmsStep ==
    \/ handleSendSms
    \/ \E i \in 1..Len(customers) : listHandleSendSms(customers[i])
    \/ \E i \in 1..Len(smsRequests), outcome \in SmsOutcomes : SmsResponse(i, outcome)

\* the answer to request i is a failure: success = false, or the call raised
SmsFailure(i) == SmsResponse(i, "failure") \/ SmsResponse(i, "raise")

(* C19: a notifier failure never reverses or alters a committed             *)
(* transaction: a send and its answer leave the customer collection (and    *)
(* the details shown) unchanged for every outcome; a failure answered to    *)
(* the section that sent it ends in the status 'failed'; and wherever       *)
(* 'failed' is shown, the send button is enabled, so the send can be        *)
(* retried.                                                                 *)
C19_SmsFailureIsolated ==
    [][/\ SmsStep => /\ customers' = customers
                     /\ lastTransactionDetails' = lastTransactionDetails
       /\ \A i \in 1..Len(smsRequests) :
             (SmsFailure(i) /\ smsRequests[i].live) =>
                 IF smsRequests[i].section = "transaction"
                 THEN smsStatus' = "failed" /\ ~smsButtonDisabled(smsStatus')
                 ELSE /\ smsRequests[i].to \in DOMAIN listSmsStatus'
                      /\ listSmsStatus'[smsRequests[i].to] = "failed"
                      /\ ~smsButtonDisabled(listSmsStatus'[smsRequests[i].to])
       /\ (smsStatus = "failed" /\ lastTransactionDetails # Null)
             => ~smsButtonDisabled(smsStatus)]_vars

\* the confirmation shows a failed send, after an earlier send of the same
\* session succeeded, with the committed customer as the commit left it
C19_Witness ==
    /\ smsStatus = "failed"
    /\ lastTransactionDetails # Null
    /\ Len(smsLogs) = 1
    /\ smsRequests = <<>>
    /\ \E i \in Holders(customers, lastTransactionDetails.mobile) :
          customers[i].points = lastTransactionDetails.newTotalPoints


\* the requests a step adds
NewRequests == {smsRequests'[i] : i \in (Len(smsRequests) + 1)..Len(smsRequests')}

(* C20: the notifier is used only after a transaction commits: every send   *)
(* request is preceded, in the same flow, by a committed transaction for    *)
(* the customer being notified (the confirmation of that transaction is on  *)
(* screen, for the mobile the request goes to).                             *)
C20_SendOnlyAfterCommit ==
    [][\A request \in NewRequests :
          /\ lastTransactionDetails # Null
          /\ request.to = lastTransactionDetails.mobile]_vars

(* C20: a send request from the transaction section is made only while the *)
(* success confirmation of a transaction of the same flow is shown, and     *)
(* goes to that transaction's mobile; a send request from the customer      *)
(* list is made outside any transaction flow and goes to a customer of the  *)
(* collection, who has a committed transaction in the history.              *)
C20_SendAfterCommitOrFromList ==
    [][\A request \in NewRequests :
          IF request.section = "transaction"
          THEN /\ lastTransactionDetails # Null
               /\ request.to = lastTransactionDetails.mobile
               /\ request.details = lastTransactionDetails
          ELSE /\ activeSection = "customers"
               /\ lastTransactionDetails = Null
               /\ \E i \in Holders(customers, request.to) :
                     Len(customers[i].history) > 0]_vars

\* a reminder from the customer list is in flight, with no transaction flow
\* open
C20_Witness ==
    /\ activeSection = "customers"
    /\ lastTransactionDetails = Null
    /\ \E i \in 1..Len(smsRequests) :
          /\ smsRequests[i].section = "customers"
          /\ smsRequests[i].live
          /\ Holders(customers, smsRequests[i].to) # {}



(* C21: an SmsLog entry is recorded exactly when a notification succeeds:   *)
(* the answer to a send adds exactly one entry to the SMS log, on top of    *)
(* the entries already there, when the notifier returned success, and       *)
(* leaves the log as it was when the send failed or raised.                 *)
C21_LogExactlyOnSuccess ==
    [][\A i \in 1..Len(smsRequests) :
          /\ SmsResponse(i, "success") =>
                /\ Len(smsLogs') = Len(smsLogs) + 1
                /\ Tail(smsLogs') = smsLogs
          /\ SmsFailure(i) => smsLogs' = smsLogs]_vars



\* every customer of a stored collection is in the next one, with at least
\* the history entries it had
KeepsEntries(old, new) ==
    \A i \in 1..Len(old) :
        \E j \in 1..Len(new) :
            /\ new[j].mobile = old[i].mobile
            /\ IsPrefix(old[i].history, new[j].history)

(* C22: concurrent updates to one tenant's collection are serialized: when  *)
(* two sessions of the tenant have each loaded the collection and each      *)
(* commits a transaction, the stored collection keeps the effect of every   *)
(* commit: no write to the store drops a customer or a history entry that   *)
(* the store held (no lost update).                                         *)
C22_NoLostUpdate ==
    [][KeepsEntries(stored, stored')]_vars



\* the highest of Silver, Gold and Platinum whose threshold (in whole units)
\* the value (in hundredths) has reached, Bronze when it has reached none
HighestReached(value, silverMin, goldMin, platinumMin) ==
    LET mins    == <<0, silverMin, goldMin, platinumMin>>
        reached == {r \in 2..Len(Tiers) : mins[r] * Scale <= value}
    IN  IF reached = {} THEN "Bronze"
        ELSE Tiers[CHOOSE r \in reached : \A q \in reached : q <= r]

(* C23: spend classification returns the highest tier among Platinum, Gold  *)
(* and Silver whose minSpend is <= totalSpent, and Bronze otherwise, also   *)
(* when totalSpent is below Bronze's own minSpend; points classification    *)
(* follows the same rule with minPoints and points.                         *)
C23_ClassificationScansFromTop ==
    \A c \in {customers[i] : i \in 1..Len(customers)}
             \cup (IF currentCustomer = Null THEN {} ELSE {currentCustomer}) :
        /\ getTierBySpend(c, tierSettings) =
               HighestReached(c.totalSpent, tierSettings.silver.minSpend,
                              tierSettings.gold.minSpend,
                              tierSettings.platinum.minSpend)
        /\ getTierByPoints(c, tierSettings) =
               HighestReached(c.points, tierSettings.silver.minPoints,
                              tierSettings.gold.minPoints,
                              tierSettings.platinum.minPoints)

\* a customer looked up whose spend and points are below Bronze's own
\* thresholds
C23_Witness ==
    /\ currentCustomer # Null
    /\ tierSettings = FloorTierSettings
    /\ currentCustomer.totalSpent < tierSettings.bronze.minSpend * Scale
    /\ currentCustomer.points < tierSettings.bronze.minPoints * Scale
    /\ getTierBySpend(currentCustomer, tierSettings) = "Bronze"
    /\ getTierByPoints(currentCustomer, tierSettings) = "Bronze"



(* C24: a customer newly created by a commit is classified Bronze by        *)
(* points, so the deadline reported for the notification,                   *)
(* deadlineSettings[Bronze], is the deadline of the customer's points tier  *)
(* after creation, for every pointsEarned and every tier settings.          *)
C24_NewCustomerIsBronzeByPoints ==
    [][(CommitStep /\ isNewCustomer) =>
          LET created == customers'[Len(customers')] IN
          /\ getTierByPoints(created, tierSettings) = "Bronze"
          /\ lastTransactionDetails'.deadlineDays =
                <<TierKey(getTierByPoints(created, tierSettings),
                          deadlineSettings)>>]_vars



(* C25: for an existing customer whose eligibility before the transaction   *)
(* has a deadline and a days-since value, the deadline reported for the     *)
(* notification is max(0, deadline - daysSinceLastTransaction) of that      *)
(* eligibility (never negative, not the full window); when those values     *)
(* are null it is the deadline of the points tier of the customer's balance *)
(* after the transaction.                                                   *)
C25_ReportedDeadline ==
    [][(CommitStep /\ ~isNewCustomer /\ currentCustomer # Null) =>
          LET reported == lastTransactionDetails'.deadlineDays IN
          IF eligibility.deadline # <<>> /\ eligibility.daysSinceLastTxn # <<>>
          THEN /\ reported # <<>>
               /\ reported[1] >= 0
               /\ reported[1] >= eligibility.deadline[1]
                                    - eligibility.daysSinceLastTxn[1]
               /\ \/ reported[1] = 0
                  \/ reported[1] = eligibility.deadline[1]
                                      - eligibility.daysSinceLastTxn[1]
          ELSE \A i \in Holders(customers', currentCustomer.mobile) :
                  reported = <<TierKey(getTierByPoints(customers'[i], tierSettings),
                                       deadlineSettings)>>]_vars

\* the confirmation of an existing customer's transaction made after the
\* deadline had passed: the remaining days are reported as 0
C25_Witness ==
    /\ lastTransactionDetails # Null
    /\ ~isNewCustomer /\ currentCustomer # Null
    /\ eligibility.deadline # <<>> /\ eligibility.daysSinceLastTxn # <<>>
    /\ eligibility.deadline[1] < eligibility.daysSinceLastTxn[1]
    /\ lastTransactionDetails.deadlineDays = <<0>>



(* C26: PIN verification guards every change to a stored customer: a commit *)
(* changes the record of a customer of the collection only if the flow      *)
(* has looked that customer up and has verified, since that lookup, a PIN   *)
(* equal to the customer's stored PIN; and every customer a commit creates  *)
(* stores a PIN of exactly 4 digits.                                        *)
C26_PinGuardsEveryChange ==
    [][/\ \A i \in 1..Len(customers) :
             (i <= Len(customers') /\ customers'[i] # customers[i]) =>
                 /\ currentCustomer # Null
                 /\ currentCustomer.mobile = customers[i].mobile
                 /\ "PinVerified" \in passed
                 /\ pin = customers[i].pin
       /\ Len(customers') > Len(customers) =>
             Len(customers'[Len(customers')].pin) = PinLen]_vars



\* the points a history accounts for: earned less used, entry by entry
RECURSIVE SumPoints(_)
SumPoints(history) ==
    IF history = <<>> THEN 0
    ELSE (history[1].points - history[1].pointsUsed) + SumPoints(Tail(history))

(* C27: the points balance agrees with the recorded history: in every       *)
(* reachable state, every customer created by a committed transaction and   *)
(* changed only by committed transactions has points equal to the sum over  *)
(* the history entries of (points earned - pointsUsed recorded), also after *)
(* a redemption made while the customer was not eligible for the discount.  *)
C27_PointsAgreeWithHistory ==
    \A i \in 1..Len(customers) :
        customers[i].points = SumPoints(customers[i].history)



(* C28: for every bill computation, also with a negative or non-numeric     *)
(* requested-points value and a discount percentage above 100, redemption   *)
(* never raises the amount payable: 0 <= pointsUsed, and so                 *)
(* 0 <= cashPayable <= finalBill.                                           *)
C28_RedemptionNeverRaisesPayable ==
    /\ 0 <= billDetails.pointsUsed
    /\ 0 <= billDetails.cashPayable
    /\ billDetails.cashPayable <= billDetails.finalBill



\* the confirmation of a transaction is on screen with the status 'sent'
SentShown == lastTransactionDetails # Null /\ smsStatus = "sent"

(* C29: the SMS status describes the transaction shown: whenever the        *)
(* confirmation of a committed transaction is displayed with the status     *)
(* 'sent', a notification for that same transaction was sent successfully.  *)
(* Every step after which 'sent' is displayed for a transaction, and before *)
(* which it was not displayed for that transaction, is the successful       *)
(* answer to a send request made for that transaction; also when the form   *)
(* is reset and a new transaction committed while a send is in flight.      *)
C29_SentStatusIsOfShownTransaction ==
    [][(SentShown' /\ ~(SentShown /\ lastTransactionDetails' = lastTransactionDetails)) =>
          \E i \in 1..Len(smsRequests) :
             /\ SmsResponse(i, "success")
             /\ smsRequests[i].section = "transaction"
             /\ smsRequests[i].details = lastTransactionDetails']_vars



\* a step of the lookup effect that searches the collection
LookupStep ==
    /\ mobile' # mobile \/ countryCode' # countryCode
    /\ Len(mobile') >= MinMobileLen
    /\ lastTransactionDetails' = Null

\* a transaction of the customer was committed less than a day ago
CommittedToday(customer, today) ==
    \E k \in 1..Len(customer.history) :
        /\ customer.history[k].date <= today
        /\ today - customer.history[k].date < DayLen

(* C30: a committed transaction restarts the customer's inactivity window:  *)
(* when a customer is looked up after one of their transactions has         *)
(* committed and before a full day has passed, eligibility reports          *)
(* daysSinceLastTransaction = 0 and eligible = true, for every deadline     *)
(* setting the editor can save (non-negative integers), whatever the        *)
(* customer's eligibility was before that transaction.                      *)
C30_CommitRestartsWindow ==
    [][(LookupStep /\ currentCustomer' # Null
            /\ CommittedToday(currentCustomer', now)) =>
          /\ eligibility'.daysSinceLastTxn = <<0>>
          /\ eligibility'.eligible]_vars

\* a customer looked up on the day of a second transaction, made a day or
\* more after the first, under a deadline of 0 days
C30_Witness ==
    /\ currentCustomer # Null
    /\ lastTransactionDetails = Null
    /\ Len(currentCustomer.history) = 2
    /\ currentCustomer.history[2].date - currentCustomer.history[1].date >= DayLen
    /\ CommittedToday(currentCustomer, now)
    /\ eligibility.deadline = <<0>>
    /\ eligibility.daysSinceLastTxn = <<0>>
    /\ eligibility.eligible

====
